---------------------------- MODULE Spec2Model ----------------------------
(***************************************************************************)
(* Model of the AI agent's coordination and dispatch layer:                *)
(*   - HotkeyManager (modules/hotkey_manager.py): key-chord listener       *)
(*   - AIAgent (ai_agent.py): hotkey sessions and the keyword router       *)
(*   - TelegramBot (modules/telegram_bot.py): chat handlers                *)
(*   - LLMManager (modules/llm_manager.py): the mode cell                  *)
(*                                                                         *)
(* Text is modelled as a sequence of one-character strings so that         *)
(* substring tests, lower() and the regular expressions of the router are  *)
(* computed character by character.                                        *)
(***************************************************************************)
EXTENDS Integers, Sequences, FiniteSets, TLC

(***************************************************************************)
(* Bounds of the model.                                                    *)
(***************************************************************************)
\* Longest utterance, in vocabulary tokens, given to the router.
MaxWords == 3
\* Number of worker threads the model lets exist at once.
MaxThreads == 2
\* The calls of Application.stop that are counted.
MaxStops == 2

(***************************************************************************)
(* Text helpers: Python's str.lower(), the `in` operator on strings and    *)
(* re.search() for the pattern shapes the program uses.                    *)
(***************************************************************************)
Min(S) == CHOOSE x \in S : \A y \in S : x <= y

Max(S) == CHOOSE x \in S : \A y \in S : x >= y

UpperToLower ==
  [c \in {"A","B","C","D","E","F","G","H","I","J","K","L","M","N","O","P","Q",
          "R","S","T","U","V","W","X","Y","Z"} |->
     CASE c = "A" -> "a" [] c = "B" -> "b" [] c = "C" -> "c" [] c = "D" -> "d"
       [] c = "E" -> "e" [] c = "F" -> "f" [] c = "G" -> "g" [] c = "H" -> "h"
       [] c = "I" -> "i" [] c = "J" -> "j" [] c = "K" -> "k" [] c = "L" -> "l"
       [] c = "M" -> "m" [] c = "N" -> "n" [] c = "O" -> "o" [] c = "P" -> "p"
       [] c = "Q" -> "q" [] c = "R" -> "r" [] c = "S" -> "s" [] c = "T" -> "t"
       [] c = "U" -> "u" [] c = "V" -> "v" [] c = "W" -> "w" [] c = "X" -> "x"
       [] c = "Y" -> "y" [] c = "Z" -> "z"]

\* str.lower(): every upper-case letter is replaced, everything else is kept.
lower(s) ==
  [i \in 1..Len(s) |->
     IF s[i] \in DOMAIN UpperToLower THEN UpperToLower[s[i]] ELSE s[i]]

\* s[i:].startswith(kw), with i counted from 1.
StartsAt(s, i, kw) ==
  /\ i + Len(kw) - 1 <= Len(s)
  /\ \A j \in 1..Len(kw) : s[i + j - 1] = kw[j]

\* `kw in s` for strings.
Contains(s, kw) == \E i \in 1..(Len(s) - Len(kw) + 1) : StartsAt(s, i, kw)

\* any(keyword in s for keyword in kws)
AnyKeyword(s, kws) == \E k \in 1..Len(kws) : Contains(s, kws[k])

\* str.strip() for the blank character of the model's alphabet.
strip(s) ==
  LET NonBlank == {i \in 1..Len(s) : s[i] # " " /\ s[i] # "\n"}
  IN IF NonBlank = {} THEN <<>> ELSE SubSeq(s, Min(NonBlank), Max(NonBlank))

\* The ends e of a group (.+) that starts at g and is followed by suf:
\* "." matches any character but a newline.
GroupEnds(s, g, suf) ==
  {e \in g..Len(s) :
     /\ \A k \in g..e : s[k] # "\n"
     /\ StartsAt(s, e + 1, suf)}

\* re.search(pre + "(.+)" + suf, s).group(1), or <<>> when there is no
\* match (None): the leftmost start wins, and from it the greedy group
\* reaches as far as a match allows.
re_search(pat, s) ==
  LET Starts == {i \in 1..Len(s) :
                   /\ StartsAt(s, i, pat.pre)
                   /\ GroupEnds(s, i + Len(pat.pre), pat.suf) # {}}
  IN IF Starts = {} THEN <<>>
     ELSE LET g == Min(Starts) + Len(pat.pre)
          IN SubSeq(s, g, Max(GroupEnds(s, g, pat.suf)))

(***************************************************************************)
(* AIAgent: the keyword router (ai_agent.py).                              *)
(***************************************************************************)
\* ['search', 'find', 'look for']
FileSearchKeywords ==
  << <<"s","e","a","r","c","h">>,
     <<"f","i","n","d">>,
     <<"l","o","o","k"," ","f","o","r">> >>

\* ['email', 'mail', 'gmail']
EmailKeywords ==
  << <<"e","m","a","i","l">>,
     <<"m","a","i","l">>,
     <<"g","m","a","i","l">> >>

\* ['mode', 'status', 'help']
SystemKeywords ==
  << <<"m","o","d","e">>,
     <<"s","t","a","t","u","s">>,
     <<"h","e","l","p">> >>

\* The list search_patterns, in the order of the source.
search_patterns ==
  << [pre |-> <<"s","e","a","r","c","h"," ","f","o","r"," ">>, suf |-> <<>>],
     [pre |-> <<"f","i","n","d"," ">>, suf |-> <<>>],
     [pre |-> <<"l","o","o","k"," ","f","o","r"," ">>, suf |-> <<>>],
     [pre |-> <<"f","i","n","d"," ","a","l","l"," ">>,
      suf |-> <<" ","f","i","l","e","s">>],
     [pre |-> <<"s","e","a","r","c","h"," ">>, suf |-> <<>>] >>

\* A reply: the f-string (or literal) that produced it, the text
\* interpolated into it and the mode name interpolated into it.
Reply(fmt, arg, val) == [fmt |-> fmt, arg |-> arg, val |-> val]

\* The loop over the patterns: the first pattern that matches gives the
\* query; <<>> when none does (query stays None).
ExtractQueryWith(patterns, message) ==
  LET text == lower(message)
      Matching == {k \in 1..Len(patterns) : re_search(patterns[k], text) # <<>>}
  IN IF Matching = {} THEN <<>> ELSE re_search(patterns[Min(Matching)], text)

ExtractQuery(message) == ExtractQueryWith(search_patterns, message)


(***************************************************************************)
(* LLMManager: the mode cell and the provider dispatch (llm_manager.py).   *)
(***************************************************************************)
\* Config.DEFAULT_MODE
DEFAULT_MODE == "gemini"

\* The list set_mode validates against.
SupportedModes == {"online", "offline", "huggingface"}

\* set_mode with the assignment ahead of the validation.
set_mode_assign_first(mode, candidate) ==
  [mode |-> candidate,
   outcome |-> IF candidate \notin SupportedModes THEN "ValueError" ELSE "ok"]

\* set_mode validating against the two modes the chat command knows.
set_mode_two_modes(mode, candidate) ==
  IF candidate \notin {"online", "offline"}
  THEN [mode |-> mode, outcome |-> "ValueError"]
  ELSE [mode |-> candidate, outcome |-> "ok"]

\* LLMManager.set_mode: the mode after the call and how the call ended.
set_mode(mode, candidate) ==
  IF candidate \notin SupportedModes
  THEN [mode |-> mode, outcome |-> "ValueError"]
  ELSE [mode |-> candidate, outcome |-> "ok"]

\* str(e) of whatever exception was raised.
ExceptionText == <<"e","x","c">>

\* LLMManager.get_response: the provider is chosen by the mode, and every
\* provider turns a failure into an error string of its own.
get_response(mode, out) ==
  IF mode = "online"
  THEN IF out = "raise"
       THEN Reply("Error getting OpenAI response: {e}", ExceptionText, "")
       ELSE Reply("{openai completion}", <<>>, "")
  ELSE IF mode = "huggingface"
  THEN IF out = "raise"
       THEN Reply("Error getting Hugging Face response: {e}", ExceptionText, "")
       ELSE Reply("{huggingface completion}", <<>>, "")
  ELSE IF out = "raise"
       THEN Reply("Error getting Ollama response: {e}", ExceptionText, "")
       ELSE Reply("{ollama completion}", <<>>, "")

(***************************************************************************)
(* AIAgent: the handlers behind the router.  Each returns what the call    *)
(* produced: the branch taken (intent, kind), the extracted query, the     *)
(* response, the mode after the call and the collaborators it invoked.     *)
(* `out` is what the invoked collaborator does: it returns nothing         *)
(* ("empty"), returns something ("results") or raises ("raise").           *)
(***************************************************************************)
Handled(intent, kind, query, response, mode, touched) ==
  [intent |-> intent, kind |-> kind, query |-> query, response |-> response,
   mode |-> mode, touched |-> touched]

\* The file search without its test for a missing query.
handle_file_search_no_clarify(message, mode, out) ==
  LET query == ExtractQuery(message)
  IN IF out = "raise"
     THEN Handled("file_search", "error", query,
            Reply("Error searching files: {e}", <<>>, ""), mode, {"file_search"})
     ELSE IF out = "results"
     THEN Handled("file_search", "found", query,
            Reply("Found {n} files:\n\n{formatted_results}", <<>>, ""),
            mode, {"file_search"})
     ELSE Handled("file_search", "not_found", query,
            Reply("No files found matching '{query}'", query, ""),
            mode, {"file_search"})

\* AIAgent._handle_file_search
handle_file_search(message, mode, out) ==
  LET query == ExtractQuery(message)
  IN IF query = <<>>
     THEN Handled("file_search", "clarify", <<>>,
            Reply("Please specify what you want to search for. For example: 'search for documents'",
                  <<>>, ""),
            mode, {})
     ELSE IF out = "raise"
     THEN Handled("file_search", "error", query,
            Reply("Error searching files: {e}", <<>>, ""), mode, {"file_search"})
     ELSE IF out = "results"
     THEN Handled("file_search", "found", query,
            Reply("Found {n} files:\n\n{formatted_results}", <<>>, ""),
            mode, {"file_search"})
     ELSE Handled("file_search", "not_found", query,
            Reply("No files found matching '{query}'", query, ""),
            mode, {"file_search"})

handle_email_commands(message, mode, out) ==
  LET message_lower == lower(message)
      CheckKeywords == << <<"c","h","e","c","k"," ","e","m","a","i","l">>,
                          <<"r","e","a","d"," ","e","m","a","i","l">>,
                          <<"s","h","o","w"," ","e","m","a","i","l">>,
                          <<"c","h","e","c","k"," ","m","a","i","l">> >>
      SendKeywords == << <<"s","e","n","d"," ","e","m","a","i","l">>,
                         <<"c","o","m","p","o","s","e"," ","e","m","a","i","l">> >>
      query == re_search([pre |-> <<"s","e","a","r","c","h"," ","e","m","a","i","l"," ">>,
                          suf |-> <<>>], message_lower)
  IN IF AnyKeyword(message_lower, CheckKeywords)
     THEN IF out = "raise"
          THEN Handled("email", "error", <<>>,
                 Reply("Error processing email command: {e}", <<>>, ""), mode, {"email"})
          ELSE IF out = "results"
          THEN Handled("email", "check", <<>>,
                 Reply("Recent emails:\n\n{summary}", <<>>, ""), mode, {"email"})
          ELSE Handled("email", "check", <<>>,
                 Reply("No recent emails found.", <<>>, ""), mode, {"email"})
     ELSE IF AnyKeyword(message_lower, SendKeywords)
     THEN Handled("email", "send", <<>>,
            Reply("Email composition not yet implemented. Please use the web interface for now.",
                  <<>>, ""),
            mode, {})
     ELSE IF Contains(message_lower, <<"s","e","a","r","c","h"," ","e","m","a","i","l">>)
     THEN IF query = <<>>
          THEN Handled("email", "clarify", <<>>,
                 Reply("Please specify what to search for in emails.", <<>>, ""), mode, {})
          ELSE IF out = "raise"
          THEN Handled("email", "error", query,
                 Reply("Error processing email command: {e}", <<>>, ""), mode, {"email"})
          ELSE IF out = "results"
          THEN Handled("email", "search", query,
                 Reply("Email search results for '{query}':\n\n{summary}", query, ""),
                 mode, {"email"})
          ELSE Handled("email", "search", query,
                 Reply("No emails found matching '{query}'", query, ""), mode, {"email"})
     ELSE Handled("email", "usage", <<>>,
            Reply("Email commands: 'check emails', 'search email [query]', 'send email'",
                  <<>>, ""),
            mode, {})

\* The system handler with the mode switch tested ahead of the status
\* request.
handle_system_commands_mode_first(message, mode, out) ==
  LET message_lower == lower(message)
  IN IF /\ Contains(message_lower, <<"m","o","d","e">>)
        /\ Contains(message_lower, <<"o","n","l","i","n","e">>)
     THEN Handled("system", "mode", <<>>,
            Reply("Switched to online mode (OpenAI)", <<>>, ""),
            set_mode(mode, "online").mode, {"mode"})
     ELSE IF /\ Contains(message_lower, <<"m","o","d","e">>)
             /\ Contains(message_lower, <<"o","f","f","l","i","n","e">>)
     THEN Handled("system", "mode", <<>>,
            Reply("Switched to offline mode (Ollama)", <<>>, ""),
            set_mode(mode, "offline").mode, {"mode"})
     ELSE IF Contains(message_lower, <<"s","t","a","t","u","s">>)
     THEN Handled("system", "status", <<>>,
            Reply("{system status}", <<>>, mode), mode, {"status"})
     ELSE Handled("system", "help", <<>>, Reply("{help message}", <<>>, ""), mode, {})

\* _handle_system_commands with a bare mode query falling back to offline.
handle_system_commands_query_switches(message, mode, out) ==
  LET message_lower == lower(message)
  IN IF Contains(message_lower, <<"s","t","a","t","u","s">>)
     THEN IF out = "raise"
          THEN Handled("system", "raised", <<>>, Reply("", <<>>, ""), mode,
                       {"status"})
          ELSE Handled("system", "status", <<>>,
                 Reply("{system status}", <<>>, mode), mode, {"status"})
     ELSE IF Contains(message_lower, <<"m","o","d","e">>)
     THEN IF Contains(message_lower, <<"o","n","l","i","n","e">>)
          THEN Handled("system", "mode", <<>>,
                 Reply("Switched to online mode (OpenAI)", <<>>, ""),
                 set_mode(mode, "online").mode, {"mode"})
          ELSE Handled("system", "mode", <<>>,
                 Reply("Switched to offline mode (Ollama)", <<>>, ""),
                 set_mode(mode, "offline").mode, {"mode"})
     ELSE IF Contains(message_lower, <<"h","e","l","p">>)
     THEN Handled("system", "help", <<>>, Reply("{help message}", <<>>, ""), mode, {})
     ELSE Handled("none", "", <<>>, Reply("", <<>>, ""), mode, {})

\* AIAgent._handle_system_commands
handle_system_commands(message, mode, out) ==
  LET message_lower == lower(message)
  IN IF Contains(message_lower, <<"s","t","a","t","u","s">>)
     THEN IF out = "raise"
          THEN \* a status query raises: nothing here catches it
               Handled("system", "raised", <<>>, Reply("", <<>>, ""), mode,
                       {"status"})
          ELSE Handled("system", "status", <<>>,
                 Reply("{system status}", <<>>, mode), mode, {"status"})
     ELSE IF Contains(message_lower, <<"m","o","d","e">>)
     THEN IF Contains(message_lower, <<"o","n","l","i","n","e">>)
          THEN Handled("system", "mode", <<>>,
                 Reply("Switched to online mode (OpenAI)", <<>>, ""),
                 set_mode(mode, "online").mode, {"mode"})
          ELSE IF Contains(message_lower, <<"o","f","f","l","i","n","e">>)
          THEN Handled("system", "mode", <<>>,
                 Reply("Switched to offline mode (Ollama)", <<>>, ""),
                 set_mode(mode, "offline").mode, {"mode"})
          ELSE Handled("system", "mode", <<>>,
                 Reply("Current mode: {current_mode}. Use 'switch to online/offline mode'",
                       <<>>, mode),
                 mode, {"mode"})
     ELSE IF Contains(message_lower, <<"h","e","l","p">>)
     THEN Handled("system", "help", <<>>, Reply("{help message}", <<>>, ""), mode, {})
     ELSE Handled("none", "", <<>>, Reply("", <<>>, ""), mode, {})

\* The cascade with the system keywords tested ahead of the email keywords.
parse_and_execute_system_first(message, mode, out) ==
  LET message_lower == lower(message)
  IN IF AnyKeyword(message_lower, FileSearchKeywords)
     THEN handle_file_search(message, mode, out)
     ELSE IF AnyKeyword(message_lower, SystemKeywords)
     THEN handle_system_commands(message, mode, out)
     ELSE IF AnyKeyword(message_lower, EmailKeywords)
     THEN handle_email_commands(message, mode, out)
     ELSE Handled("none", "", <<>>, Reply("", <<>>, ""), mode, {})

\* The cascade without its last branch: a message with only a system
\* keyword falls through.
parse_and_execute_no_system(message, mode, out) ==
  LET message_lower == lower(message)
  IN IF AnyKeyword(message_lower, FileSearchKeywords)
     THEN handle_file_search(message, mode, out)
     ELSE IF AnyKeyword(message_lower, EmailKeywords)
     THEN handle_email_commands(message, mode, out)
     ELSE Handled("none", "", <<>>, Reply("", <<>>, ""), mode, {})

\* AIAgent._parse_and_execute: the keyword cascade, first match wins.
parse_and_execute(message, mode, out) ==
  LET message_lower == lower(message)
  IN IF AnyKeyword(message_lower, FileSearchKeywords)
     THEN handle_file_search(message, mode, out)
     ELSE IF AnyKeyword(message_lower, EmailKeywords)
     THEN handle_email_commands(message, mode, out)
     ELSE IF AnyKeyword(message_lower, SystemKeywords)
     THEN handle_system_commands(message, mode, out)
     ELSE Handled("none", "", <<>>, Reply("", <<>>, ""), mode, {})

\* process_text_message without its try/except: what a handler raises
\* reaches the caller.
process_text_message_no_except(message, mode, out) ==
  LET r == parse_and_execute(message, mode, out)
  IN IF r.intent = "none"
     THEN Handled("chat", "", <<>>, get_response(mode, out), mode, {"llm"})
     ELSE r

\* AIAgent.process_text_message: a message no command handled goes to the
\* language model, and whatever a handler raises becomes a reply.
process_text_message(message, mode, out) ==
  LET r == parse_and_execute(message, mode, out)
  IN IF r.intent = "none"
     THEN Handled("chat", "", <<>>, get_response(mode, out), mode, {"llm"})
     ELSE IF r.kind = "raised"
     THEN Handled(r.intent, "error", r.query,
            Reply("Sorry, I encountered an error: {e}", <<>>, ""), r.mode,
            r.touched)
     ELSE r

(***************************************************************************)
(* State.                                                                  *)
(***************************************************************************)
VARIABLES
  current_mode,      \* LLMManager.current_mode
  TELEGRAM_CHAT_ID,  \* Config.TELEGRAM_CHAT_ID: "" when not configured
  agent,             \* Config.TELEGRAM_TOKEN, how far main() has come,
                     \* TelegramBot.application and the calls of its stop
  logged,            \* the lines the last hotkey activation wrote to the log
  request,           \* a get_response call followed test by test: where it
                     \* is, the modes held since it began, the provider taken
  session,           \* the process_text_message call of the last operation
                     \* and what its collaborator did
  event,             \* the last inbound chat event or direct call
  replies,           \* the replies sent for that event, in order
  touched,           \* the collaborators invoked while handling it
  modeBefore,        \* current_mode when its handling began
  temp_files,        \* temporary files that exist on disk
  listener,          \* HotkeyManager.listener: "none", "alive" or "dead"
  is_active,         \* HotkeyManager.is_active
  pressed_keys,      \* HotkeyManager.pressed_keys
  held,              \* the keys physically held down
  threads,           \* the activation threads: what each is doing
  sinceFire          \* what happened to the chord since the last activation

vars ==
  <<current_mode, TELEGRAM_CHAT_ID, agent, logged, request, session, event,
    replies, touched,
    modeBefore, temp_files, listener, is_active, pressed_keys, held, threads,
    sinceFire>>

chatVars == <<TELEGRAM_CHAT_ID, agent, logged, request, event, replies, modeBefore>>

hotkeyVars == <<listener, is_active, pressed_keys, held, threads, sinceFire>>

NoRequest == [pc |-> "idle", seen |-> {}, provider |-> ""]

NoSession ==
  [message |-> <<>>, intent |-> "none", kind |-> "", query |-> <<>>,
   response |-> Reply("", <<>>, ""), out |-> ""]

NoEvent == [kind |-> "none", sender |-> 0, arg |-> <<>>, candidate |-> "", outcome |-> ""]

\* Config.HOTKEY_COMBINATION
HOTKEY_COMBINATION == {"ctrl", "alt", "a"}

Threads == 1..MaxThreads

\* The state after AIAgent.__init__: the mode is the configured default,
\* nothing is listening and nothing has been received.  The allow-listed
\* chat id comes from the environment.
Init ==
  /\ current_mode = DEFAULT_MODE
  /\ TELEGRAM_CHAT_ID \in {"", "1"}
  /\ agent = [token |-> "token", phase |-> "constructed",
              application |-> "built", app_stops |-> 0]
  /\ logged = <<>>
  /\ request = NoRequest
  /\ session = NoSession
  /\ event = NoEvent
  /\ replies = <<>>
  /\ touched = {}
  /\ modeBefore = DEFAULT_MODE
  /\ temp_files = {}
  /\ listener = "none"
  /\ is_active = FALSE
  /\ pressed_keys = {}
  /\ held = {}
  /\ threads = [t \in Threads |-> "idle"]
  /\ sinceFire = "never"

(***************************************************************************)
(* Inputs.                                                                 *)
(***************************************************************************)
\* The words utterances are built from; the empty token gives leading,
\* trailing and doubled blanks.
Vocabulary ==
  { <<"s","e","a","r","c","h"," ","f","o","r">>,
    <<"s","e","a","r","c","h">>,
    <<"f","i","n","d"," ","a","l","l">>,
    <<"f","i","n","d">>,
    <<"p","d","f">>,
    <<"P","D","F">>,
    <<"f","i","l","e","s">>,
    <<"e","m","a","i","l">>,
    <<"s","t","a","t","u","s">>,
    <<>> }

RECURSIVE Join(_)
\* " ".join(words)
Join(words) ==
  IF Len(words) = 0 THEN <<>>
  ELSE IF Len(words) = 1 THEN words[1]
  ELSE words[1] \o <<" ">> \o Join(Tail(words))

Utterances ==
  {Join(ws) : ws \in UNION {[1..n -> Vocabulary] : n \in 1..MaxWords}}

Outcomes == {"empty", "results", "raise"}

(***************************************************************************)
(* A direct call of AIAgent.process_text_message, as the hotkey session    *)
(* and the chat handlers make it.                                          *)
(***************************************************************************)
Process(message, out) ==
  \E r \in {process_text_message(message, current_mode, out)} :
     /\ session' = [message |-> message, intent |-> r.intent, kind |-> r.kind,
                    query |-> r.query, response |-> r.response,
                    out |-> out]
     /\ current_mode' = r.mode
     /\ touched' = r.touched

\* The router specification follows one call per behaviour.
ProcessCall ==
  /\ session = NoSession
  /\ \E message \in Utterances, out \in Outcomes :
       /\ Process(message, out)
       /\ modeBefore' = current_mode
  /\ UNCHANGED <<TELEGRAM_CHAT_ID, agent, logged, request, event, replies, temp_files>>
  /\ UNCHANGED hotkeyVars

NextRouter == ProcessCall

\* The router does not read the allow-list: one configuration is enough.
InitRouter == Init /\ TELEGRAM_CHAT_ID = ""

SpecRouter == InitRouter /\ [][NextRouter]_vars

(***************************************************************************)
(* SpeechRecognition (modules/speech_recognition.py), as far as the chat   *)
(* handlers and the hotkey session see it.  `how` is what the outside      *)
(* world does to the call; `text` is what whisper writes when it succeeds. *)
(***************************************************************************)
\* A file made by tempfile.NamedTemporaryFile(delete=False): what it holds
\* and the activation thread that made it (0: a chat handler).
TempFile(what, owner) == [what |-> what, owner |-> owner]

\* SpeechRecognition.transcribe_audio_file: never raises.
transcribe_audio_file(how, text) ==
  IF how = "nonzero"
  THEN <<"E","r","r","o","r"," ","t","r","a","n","s","c","r","i","b","i","n","g",
         " ","a","u","d","i","o">>
  ELSE IF how = "no_output"
  THEN <<"N","o"," ","t","r","a","n","s","c","r","i","p","t","i","o","n"," ",
         "o","u","t","p","u","t"," ","f","o","u","n","d">>
  ELSE IF how = "timeout"
  THEN <<"T","r","a","n","s","c","r","i","p","t","i","o","n"," ","t","i","m","e",
         "d"," ","o","u","t">>
  ELSE IF how = "exception"
  THEN <<"E","r","r","o","r"," ","t","r","a","n","s","c","r","i","b","i","n","g",
         " ","a","u","d","i","o",":"," ">> \o ExceptionText
  ELSE strip(text)

\* SpeechRecognition.transcribe_voice_message: the transcription and the
\* temporary files it leaves on disk.
transcribe_voice_message(how, text) ==
  LET Failed == <<"E","r","r","o","r"," ","t","r","a","n","s","c","r","i","b","i",
                  "n","g"," ","v","o","i","c","e"," ","m","e","s","s","a","g","e",
                  ":"," ">> \o ExceptionText
  IN IF how = "decode_fail"
     THEN [transcription |-> Failed, left |-> {}]
     ELSE IF how = "export_fail"
     THEN [transcription |-> Failed, left |-> {TempFile("voice.wav", 0)}]
     ELSE [transcription |-> transcribe_audio_file(how, text), left |-> {}]

(***************************************************************************)
(* TelegramBot: the handlers (modules/telegram_bot.py).  The framework     *)
(* runs one handler at a time, and a handler does not yield to another     *)
(* update while the agent works, so each handler is one step.  Replies are *)
(* taken to reach the transport.                                           *)
(***************************************************************************)
Senders == {1, 2}

\* str(user_id)
str(user_id) == IF user_id = 1 THEN "1" ELSE IF user_id = 2 THEN "2" ELSE "0"

\* The allow-list test with the comparison turned around.
Rejected_inverted(chat_id, user_id) == chat_id # "" /\ str(user_id) = chat_id

\* The allow-list test without its "if configured" half.
Rejected_when_unset(chat_id, user_id) == str(user_id) # chat_id

\* The allow-list test of _handle_text and _handle_voice.
Rejected(chat_id, user_id) == chat_id # "" /\ str(user_id) # chat_id

\* The fixed reply to a rejected sender (its leading cross mark left out).
Unauthorized == Reply("Unauthorized access", <<>>, "")

\* The texts chat messages and transcriptions are drawn from.
ChatTexts ==
  { <<"h","i">>,
    <<"e","m","a","i","l"," ","s","t","a","t","u","s">>,
    <<"m","o","d","e"," ","o","f","f","l","i","n","e">>,
    <<"m","o","d","e">>,
    <<"f","i","n","d"," ","a","l","l"," ","p","d","f"," ","f","i","l","e","s">> }

Event(kind, sender, arg, candidate, outcome) ==
  [kind |-> kind, sender |-> sender, arg |-> arg, candidate |-> candidate,
   outcome |-> outcome]

\* TelegramBot._handle_text
handle_text(sender, text, out) ==
  /\ modeBefore' = current_mode
  /\ IF Rejected(TELEGRAM_CHAT_ID, sender)
     THEN /\ event' = Event("text", sender, text, "", "unauthorized")
          /\ replies' = <<Unauthorized>>
          /\ touched' = {}
          /\ session' = NoSession
          /\ UNCHANGED current_mode
     ELSE \E r \in {process_text_message(text, current_mode, out)} :
            /\ event' = Event("text", sender, text, "", "processed")
            /\ session' = [message |-> text, intent |-> r.intent,
                           kind |-> r.kind, query |-> r.query,
                           response |-> r.response, out |-> out]
            /\ current_mode' = r.mode
            /\ touched' = r.touched \cup {"router"}
            /\ replies' = <<r.response>>
  /\ UNCHANGED <<TELEGRAM_CHAT_ID, agent, logged, request, temp_files>>
  /\ UNCHANGED hotkeyVars

HandleText == \E sender \in Senders, text \in ChatTexts, out \in Outcomes :
                handle_text(sender, text, out)

VoiceOutcomes ==
  {"chat_action_fail", "get_file_fail", "download_fail", "decode_fail",
   "export_fail", "nonzero", "no_output", "timeout", "exception", "text"}

\* TelegramBot._handle_voice
handle_voice(sender, how, text, out) ==
  /\ modeBefore' = current_mode
  /\ IF Rejected(TELEGRAM_CHAT_ID, sender)
     THEN /\ event' = Event("voice", sender, <<>>, "", "unauthorized")
          /\ replies' = <<Unauthorized>>
          /\ touched' = {}
          /\ session' = NoSession
          /\ UNCHANGED <<current_mode, temp_files>>
     ELSE IF how \in {"chat_action_fail", "get_file_fail", "download_fail"}
     THEN \* raised before the inner try: the outer handler replies
          /\ event' = Event("voice", sender, <<>>, "", how)
          /\ replies' = <<Reply("Error processing voice message: {e}", <<>>, "")>>
          /\ touched' = {}
          /\ temp_files' = temp_files \cup
                (IF how = "download_fail" THEN {TempFile("voice.ogg", 0)} ELSE {})
          /\ session' = NoSession
          /\ UNCHANGED current_mode
     ELSE \E v \in {transcribe_voice_message(how, text)} :
            /\ event' = Event("voice", sender, v.transcription, "", how)
            /\ temp_files' = temp_files \cup v.left
            /\ IF /\ v.transcription # <<>>
                  /\ v.transcription #
                       <<"E","r","r","o","r"," ","t","r","a","n","s","c","r","i",
                         "b","i","n","g"," ","v","o","i","c","e"," ","m","e","s",
                         "s","a","g","e">>
               THEN \E r \in {process_text_message(v.transcription,
                                                    current_mode, out)} :
                      /\ session' = [message |-> v.transcription,
                                     intent |-> r.intent, kind |-> r.kind,
                                     query |-> r.query, response |-> r.response,
                                     out |-> out]
                      /\ current_mode' = r.mode
                      /\ touched' = r.touched \cup {"transcriber", "router"}
                      /\ replies' = <<Reply("Transcription: {transcription}",
                                            v.transcription, ""),
                                      r.response>>
               ELSE /\ replies' = <<Reply("Could not transcribe voice message",
                                          <<>>, "")>>
                    /\ touched' = {"transcriber"}
                    /\ session' = NoSession
                    /\ UNCHANGED current_mode
  /\ UNCHANGED <<TELEGRAM_CHAT_ID, agent, logged, request>>
  /\ UNCHANGED hotkeyVars

HandleVoice ==
  \E sender \in Senders, how \in VoiceOutcomes, out \in Outcomes :
    \E text \in (IF how = "text" THEN ChatTexts \cup {<<>>} ELSE {<<>>}) :
      handle_voice(sender, how, text, out)

\* What context.args of a /mode command can hold.
ModeArgs ==
  { <<>>,
    << <<"o","n","l","i","n","e">> >>,
    << <<"O","F","F","L","I","N","E">> >>,
    << <<"h","u","g","g","i","n","g","f","a","c","e">> >>,
    << <<"b","o","g","u","s">> >> }

\* The mode a word names.
ModeName(word) ==
  IF word = <<"o","n","l","i","n","e">> THEN "online"
  ELSE IF word = <<"o","f","f","l","i","n","e">> THEN "offline"
  ELSE IF word = <<"h","u","g","g","i","n","g","f","a","c","e">> THEN "huggingface"
  ELSE "bogus"

\* TelegramBot._mode_command
mode_command(sender, args) ==
  /\ modeBefore' = current_mode
  /\ IF args = <<>>
     THEN /\ event' = Event("/mode", sender, <<>>, "", "shown")
          /\ replies' = <<Reply("Current mode: {current_mode}\nUse: /mode online or /mode offline",
                                <<>>, current_mode)>>
          /\ touched' = {"mode"}
          /\ UNCHANGED current_mode
     ELSE \E mode \in {lower(args[1])} :
            IF mode \notin {<<"o","n","l","i","n","e">>,
                            <<"o","f","f","l","i","n","e">>}
            THEN /\ event' = Event("/mode", sender, mode, "", "invalid")
                 /\ replies' = <<Reply("Invalid mode. Use 'online' or 'offline'",
                                       <<>>, "")>>
                 /\ touched' = {}
                 /\ UNCHANGED current_mode
            ELSE \E r \in {set_mode(current_mode, ModeName(mode))} :
                   /\ event' = Event("/mode", sender, mode, ModeName(mode),
                                     r.outcome)
                   /\ current_mode' = r.mode
                   /\ touched' = {"mode"}
                   /\ replies' =
                        IF r.outcome = "ok"
                        THEN <<Reply("Switched to {mode} mode", mode, "")>>
                        ELSE <<Reply("Error switching mode: {e}", <<>>, "")>>
  /\ session' = NoSession
  /\ UNCHANGED <<TELEGRAM_CHAT_ID, agent, logged, request, temp_files>>
  /\ UNCHANGED hotkeyVars

ModeCommand == \E sender \in Senders, args \in ModeArgs : mode_command(sender, args)

\* TelegramBot._status_command
status_command(sender) ==
  /\ modeBefore' = current_mode
  /\ event' = Event("/status", sender, <<>>, "", "shown")
  /\ replies' = <<Reply("{system status}", <<>>, current_mode)>>
  /\ touched' = {"status"}
  /\ session' = NoSession
  /\ UNCHANGED <<current_mode, TELEGRAM_CHAT_ID, agent, logged, request, temp_files>>
  /\ UNCHANGED hotkeyVars

StatusCommand == \E sender \in Senders : status_command(sender)

\* TelegramBot._start_command and _help_command
info_command(sender, kind) ==
  /\ modeBefore' = current_mode
  /\ event' = Event(kind, sender, <<>>, "", "shown")
  /\ replies' = <<Reply(IF kind = "/start" THEN "{welcome message}"
                        ELSE "{help message}", <<>>, "")>>
  /\ touched' = {}
  /\ session' = NoSession
  /\ UNCHANGED <<current_mode, TELEGRAM_CHAT_ID, agent, logged, request, temp_files>>
  /\ UNCHANGED hotkeyVars

InfoCommand == \E sender \in Senders, kind \in {"/start", "/help"} :
                 info_command(sender, kind)

\* The slash commands of the chat transport that _setup_bot registers no
\* CommandHandler for.  The text handler's filter excludes every command, so
\* the update matches no handler.
UnregisteredCommands == {"/send"}

\* TelegramBot._setup_bot: an update that matches no registered handler is
\* dropped by the dispatcher; nothing is called and nothing is sent.
unregistered_command(sender, kind) ==
  /\ modeBefore' = current_mode
  /\ event' = Event(kind, sender, <<>>, "", "dropped")
  /\ replies' = <<>>
  /\ touched' = {}
  /\ session' = NoSession
  /\ UNCHANGED <<current_mode, TELEGRAM_CHAT_ID, agent, logged, request, temp_files>>
  /\ UNCHANGED hotkeyVars

UnregisteredCommand == \E sender \in Senders, kind \in UnregisteredCommands :
                         unregistered_command(sender, kind)

\* The candidates a direct call of set_mode is given.
Candidates == {"online", "offline", "huggingface", "gemini", "bogus", ""}

\* A direct call of LLMManager.set_mode.
SetModeCall ==
  \E candidate \in Candidates :
    \E r \in {set_mode(current_mode, candidate)} :
      /\ modeBefore' = current_mode
      /\ event' = Event("set_mode", 0, <<>>, candidate, r.outcome)
      /\ current_mode' = r.mode
      /\ replies' = <<>>
      /\ touched' = {"mode"}
      /\ session' = NoSession
      /\ UNCHANGED <<TELEGRAM_CHAT_ID, agent, logged, request, temp_files>>
      /\ UNCHANGED hotkeyVars

Next ==
  \/ HandleText
  \/ HandleVoice
  \/ ModeCommand
  \/ StatusCommand
  \/ InfoCommand
  \/ UnregisteredCommand
  \/ SetModeCall

Spec == Init /\ [][Next]_vars

(***************************************************************************)
(* The same handlers step by step.  run_polling drives every handler on    *)
(* the one thread of the event loop, and transcribe_voice_message and      *)
(* get_response are plain calls made from the coroutine: while one of them *)
(* runs, the thread is inside it.  event.outcome tells where the thread    *)
(* is: "transcribing" and "completing" are the two calls, anything else is *)
(* the loop waiting for the next update.                                   *)
(***************************************************************************)
CollaboratorWorking == event.outcome \in {"transcribing", "completing"}

\* TelegramBot._handle_text up to the call of process_text_message.
LoopBeginText ==
  /\ ~CollaboratorWorking
  /\ \E sender \in Senders, text \in ChatTexts :
       IF Rejected(TELEGRAM_CHAT_ID, sender)
       THEN /\ event' = Event("text", sender, text, "", "unauthorized")
            /\ replies' = <<Unauthorized>>
       ELSE /\ event' = Event("text", sender, text, "", "completing")
            /\ replies' = <<>>
  /\ modeBefore' = current_mode
  /\ touched' = {}
  /\ session' = NoSession
  /\ UNCHANGED <<current_mode, TELEGRAM_CHAT_ID, agent, logged, request, temp_files>>
  /\ UNCHANGED hotkeyVars

\* TelegramBot._handle_text: process_text_message returns and the response
\* is sent.
LoopFinishText ==
  /\ event.kind = "text"
  /\ event.outcome = "completing"
  /\ \E out \in Outcomes :
       \E r \in {process_text_message(event.arg, current_mode, out)} :
         /\ event' = [event EXCEPT !.outcome = "processed"]
         /\ session' = [message |-> event.arg, intent |-> r.intent,
                        kind |-> r.kind, query |-> r.query,
                        response |-> r.response, out |-> out]
         /\ current_mode' = r.mode
         /\ touched' = r.touched \cup {"router"}
         /\ replies' = <<r.response>>
  /\ UNCHANGED <<TELEGRAM_CHAT_ID, agent, logged, request, temp_files, modeBefore>>
  /\ UNCHANGED hotkeyVars

\* TelegramBot._handle_voice up to the call of transcribe_voice_message:
\* the voice note is downloaded to a temporary file.
LoopBeginVoice ==
  /\ ~CollaboratorWorking
  /\ \E sender \in Senders,
        how \in {"ok", "chat_action_fail", "get_file_fail", "download_fail"} :
       IF Rejected(TELEGRAM_CHAT_ID, sender)
       THEN /\ event' = Event("voice", sender, <<>>, "", "unauthorized")
            /\ replies' = <<Unauthorized>>
            /\ UNCHANGED temp_files
       ELSE IF how = "ok"
       THEN /\ event' = Event("voice", sender, <<>>, "", "transcribing")
            /\ replies' = <<>>
            /\ temp_files' = temp_files \cup {TempFile("voice.ogg", 0)}
       ELSE /\ event' = Event("voice", sender, <<>>, "", how)
            /\ replies' = <<Reply("Error processing voice message: {e}", <<>>, "")>>
            /\ temp_files' = temp_files \cup
                 (IF how = "download_fail" THEN {TempFile("voice.ogg", 0)} ELSE {})
  /\ modeBefore' = current_mode
  /\ touched' = {}
  /\ session' = NoSession
  /\ UNCHANGED <<current_mode, TELEGRAM_CHAT_ID, agent, logged, request>>
  /\ UNCHANGED hotkeyVars

\* TelegramBot._handle_voice: transcribe_voice_message returns.  A usable
\* transcription is sent and process_text_message is called; otherwise the
\* handler apologises and its finally clause removes the download.
LoopTranscribed ==
  /\ event.kind = "voice"
  /\ event.outcome = "transcribing"
  /\ \E how \in VoiceOutcomes \ {"chat_action_fail", "get_file_fail", "download_fail"} :
       \E text \in (IF how = "text" THEN ChatTexts \cup {<<>>} ELSE {<<>>}) :
         \E v \in {transcribe_voice_message(how, text)} :
           IF /\ v.transcription # <<>>
              /\ v.transcription #
                   <<"E","r","r","o","r"," ","t","r","a","n","s","c","r","i",
                     "b","i","n","g"," ","v","o","i","c","e"," ","m","e","s",
                     "s","a","g","e">>
           THEN /\ event' = [event EXCEPT !.arg = v.transcription,
                                          !.outcome = "completing"]
                /\ replies' = <<Reply("Transcription: {transcription}",
                                      v.transcription, "")>>
                /\ temp_files' = temp_files \cup v.left
           ELSE /\ event' = [event EXCEPT !.outcome = how]
                /\ replies' = <<Reply("Could not transcribe voice message", <<>>, "")>>
                /\ temp_files' = (temp_files \cup v.left) \ {TempFile("voice.ogg", 0)}
  /\ touched' = {"transcriber"}
  /\ UNCHANGED <<current_mode, TELEGRAM_CHAT_ID, agent, logged, request, session, modeBefore>>
  /\ UNCHANGED hotkeyVars

\* TelegramBot._handle_voice: process_text_message returns, the response is
\* sent and the finally clause removes the download.
LoopFinishVoice ==
  /\ event.kind = "voice"
  /\ event.outcome = "completing"
  /\ \E out \in Outcomes :
       \E r \in {process_text_message(event.arg, current_mode, out)} :
         /\ event' = [event EXCEPT !.outcome = "processed"]
         /\ session' = [message |-> event.arg, intent |-> r.intent,
                        kind |-> r.kind, query |-> r.query,
                        response |-> r.response, out |-> out]
         /\ current_mode' = r.mode
         /\ touched' = r.touched \cup {"transcriber", "router"}
         /\ replies' = Append(replies, r.response)
  /\ temp_files' = temp_files \ {TempFile("voice.ogg", 0)}
  /\ UNCHANGED <<TELEGRAM_CHAT_ID, agent, logged, request, modeBefore>>
  /\ UNCHANGED hotkeyVars

\* The loop takes the next update and starts its handler.
LoopBegin == LoopBeginText \/ LoopBeginVoice

NextLoop ==
  \/ LoopBeginText
  \/ LoopBeginVoice
  \/ LoopTranscribed
  \/ LoopFinishText
  \/ LoopFinishVoice

SpecLoop == Init /\ [][NextLoop]_vars

(***************************************************************************)
(* HotkeyManager (modules/hotkey_manager.py) and the activation it         *)
(* triggers (AIAgent._hotkey_activation).  The listener's callbacks run    *)
(* one at a time on the listener's thread; every activation gets a thread  *)
(* of its own.                                                             *)
(***************************************************************************)
Keys == HOTKEY_COMBINATION \cup {"b"}

\* HotkeyManager._key_to_string, for keys that have a name or a character.
key_to_string(key) == key

\* The thread slot Thread(...).start() takes: 0 when the model has none
\* left, which stands for a start that raises.
FreeThread ==
  IF \E t \in Threads : threads[t] = "idle"
  THEN Min({t \in Threads : threads[t] = "idle"})
  ELSE 0

\* The activation callback called in place: by the time the call returns
\* the session is over and no thread was started.
trigger_activation_inline(thr) == thr

\* HotkeyManager._trigger_activation: the callback starts on a new thread,
\* whatever the other threads are doing.
trigger_activation(thr) ==
  IF FreeThread = 0 THEN thr ELSE [thr EXCEPT ![FreeThread] = "recording"]

\* HotkeyManager._on_press: what it leaves in pressed_keys, is_active and
\* the threads.
on_press(key, pressed, active, thr) ==
  LET key_str == key_to_string(key)
      now == pressed \cup {key_str}
  IN IF key_str = ""
     THEN [pressed |-> pressed, active |-> active, thr |-> thr, fired |-> FALSE]
     ELSE IF now = HOTKEY_COMBINATION /\ ~active
     THEN [pressed |-> now, active |-> TRUE, thr |-> trigger_activation(thr),
           fired |-> TRUE]
     ELSE [pressed |-> now, active |-> active, thr |-> thr, fired |-> FALSE]

\* _on_release without the reset of is_active.
on_release_keeps_armed(key, pressed, active) ==
  LET key_str == key_to_string(key)
  IN IF key_str \in pressed
     THEN [pressed |-> pressed \ {key_str}, active |-> active]
     ELSE [pressed |-> pressed, active |-> active]

\* HotkeyManager._on_release: what it leaves in pressed_keys and is_active.
on_release(key, pressed, active) ==
  LET key_str == key_to_string(key)
  IN IF key_str \in pressed
     THEN [pressed |-> pressed \ {key_str}, active |-> FALSE]
     ELSE [pressed |-> pressed, active |-> active]

routerVars == <<current_mode, session, touched>>

\* is_listening reading only whether a listener object is held.
is_listening_object_only == listener # "none"

\* HotkeyManager.is_listening
is_listening == listener # "none" /\ listener = "alive"

\* What the platform does to HotkeyManager.start: the listener starts,
\* keyboard.Listener(...) raises, or listener.start() raises.
StartOutcomes == {"ok", "no_listener", "no_start"}

\* HotkeyManager.start: the listener it leaves.
hotkey_manager_start(l, how) ==
  IF how = "ok" THEN "alive"
  ELSE IF how = "no_start" THEN "dead"
  ELSE l

\* HotkeyManager.start: the listener is made and started; making it or
\* starting it can fail, and the failure is logged.  AIAgent.start is its
\* only caller, so it is followed while no listener is alive.
HotkeyStart ==
  /\ listener # "alive"
  /\ \E how \in StartOutcomes : listener' = hotkey_manager_start(listener, how)
  /\ UNCHANGED <<is_active, pressed_keys, held, threads, sinceFire, temp_files>>
  /\ UNCHANGED chatVars
  /\ UNCHANGED routerVars

\* stop without its test of self.listener.
hotkey_manager_stop_unguarded(l) ==
  [listener |-> "none",
   outcome |-> IF l = "none" THEN "AttributeError" ELSE "released"]

\* HotkeyManager.stop: the listener it leaves and what the call did, the
\* hook released or nothing.
hotkey_manager_stop(l) ==
  IF l # "none"
  THEN [listener |-> "none", outcome |-> "released"]
  ELSE [listener |-> l, outcome |-> "nothing"]

\* A call of HotkeyManager.stop.
HotkeyStop ==
  /\ \E r \in {hotkey_manager_stop(listener)} :
       /\ listener' = r.listener
       /\ event' = Event("stop", 0, <<>>, "", r.outcome)
  /\ UNCHANGED <<is_active, pressed_keys, held, threads, sinceFire, temp_files>>
  /\ UNCHANGED <<TELEGRAM_CHAT_ID, agent, logged, request, replies, modeBefore>>
  /\ UNCHANGED routerVars

\* A key goes down, or a held key repeats: the listener, if alive, runs
\* _on_press.
Pressed(key) ==
  /\ held' = held \cup {key}
  /\ IF listener = "alive"
     THEN \E r \in {on_press(key, pressed_keys, is_active, threads)} :
            /\ pressed_keys' = r.pressed
            /\ is_active' = r.active
            /\ threads' = r.thr
            /\ sinceFire' = IF r.fired THEN "held" ELSE sinceFire
     ELSE UNCHANGED <<pressed_keys, is_active, threads, sinceFire>>
  /\ UNCHANGED <<listener, temp_files>>
  /\ UNCHANGED chatVars
  /\ UNCHANGED routerVars

KeyPress == \E key \in Keys \ held : Pressed(key)

KeyRepeat == \E key \in held : Pressed(key)

\* A held key goes up: the listener, if alive, runs _on_release.
KeyRelease ==
  \E key \in held :
    /\ held' = held \ {key}
    /\ IF listener = "alive"
       THEN \E r \in {on_release(key, pressed_keys, is_active)} :
              /\ pressed_keys' = r.pressed
              /\ is_active' = r.active
       ELSE UNCHANGED <<pressed_keys, is_active>>
    /\ sinceFire' = IF sinceFire = "held" /\ key \in HOTKEY_COMBINATION
                    THEN "released" ELSE sinceFire
    /\ UNCHANGED <<listener, threads, temp_files>>
    /\ UNCHANGED chatVars
    /\ UNCHANGED routerVars

\* The tail of AIAgent._hotkey_activation: a transcription that is not
\* empty and not the bare error text is processed, anything else is logged.
HotkeyProcess(transcription, out) ==
  IF /\ transcription # <<>>
     /\ transcription #
          <<"E","r","r","o","r"," ","r","e","c","o","r","d","i","n","g"," ","a",
            "n","d"," ","t","r","a","n","s","c","r","i","b","i","n","g">>
  THEN /\ Process(transcription, out)
       /\ logged' = <<Reply("Transcription: {transcription}", transcription, "")>>
  ELSE /\ session' = NoSession
       /\ touched' = {}
       /\ logged' = <<Reply("Failed to transcribe hotkey activation", <<>>, "")>>
       /\ UNCHANGED current_mode

\* SpeechRecognition.record_and_transcribe, first half: the microphone is
\* read for the whole duration and the samples are saved to a temporary
\* file.  A failure of either ends the session through the except clause.
\* Hows and Outs are the outcomes the environment is allowed.
session_recorded(Hows, Outs) ==
  \E t \in Threads, how \in Hows, out \in Outs :
    /\ threads[t] = "recording"
    /\ IF how = "ok"
       THEN /\ threads' = [threads EXCEPT ![t] = "transcribing"]
            /\ temp_files' = temp_files \cup {TempFile("recording.wav", t)}
            /\ UNCHANGED routerVars
            /\ UNCHANGED logged
       ELSE /\ threads' = [threads EXCEPT ![t] = "idle"]
            /\ temp_files' = temp_files \cup
                 (IF how = "save_fail" THEN {TempFile("recording.wav", t)} ELSE {})
            /\ HotkeyProcess(
                 <<"E","r","r","o","r"," ","r","e","c","o","r","d","i","n","g"," ",
                   "a","n","d"," ","t","r","a","n","s","c","r","i","b","i","n","g",
                   ":"," ">> \o ExceptionText, out)
    /\ UNCHANGED <<listener, is_active, pressed_keys, held, sinceFire>>
    /\ UNCHANGED <<TELEGRAM_CHAT_ID, agent, request, event, replies, modeBefore>>

\* SpeechRecognition.record_and_transcribe, second half, and the rest of
\* the activation: whisper runs, the temporary file is removed and the
\* transcription is processed.
session_transcribed(Hows, Texts, Outs) ==
  \E t \in Threads, how \in Hows, out \in Outs :
    \E text \in (IF how = "text" THEN Texts ELSE {<<>>}) :
      /\ threads[t] = "transcribing"
      /\ threads' = [threads EXCEPT ![t] = "idle"]
      /\ temp_files' = temp_files \ {TempFile("recording.wav", t)}
      /\ HotkeyProcess(transcribe_audio_file(how, text), out)
      /\ UNCHANGED <<listener, is_active, pressed_keys, held, sinceFire>>
      /\ UNCHANGED <<TELEGRAM_CHAT_ID, agent, request, event, replies, modeBefore>>

\* The key listener is followed with sessions that hear one short
\* utterance and whose collaborators work.
SessionRecorded == session_recorded({"ok"}, {"results"})

SessionTranscribed == session_transcribed({"text"}, {<<"h","i">>}, {"results"})

NextHotkey ==
  \/ HotkeyStart
  \/ HotkeyStop
  \/ KeyPress
  \/ KeyRepeat
  \/ KeyRelease
  \/ SessionRecorded
  \/ SessionTranscribed

SpecHotkey == InitRouter /\ [][NextHotkey]_vars

(***************************************************************************)
(* main() of ai_agent.py: the agent is constructed, started and stopped.   *)
(* agent.phase is where main() is: "new" before AIAgent(), "failed" when   *)
(* the constructor raised, "constructed", "polling" while start() is       *)
(* inside run_polling, "running" once start() has returned, "stopped"      *)
(* after stop().                                                           *)
(***************************************************************************)
\* TELEGRAM_TOKEN as the environment gives it: "" when it is not set.
Tokens == {"", "token"}

\* Config.validate letting a missing token pass.
validate_accepts_all(token) == "ok"

\* Config.validate
validate(token) == IF token = "" THEN "ValueError" ELSE "ok"

\* TelegramBot._setup_bot: the application it leaves.  Without a token, or
\* when the builder raises, self.application stays None.
setup_bot(token, how) ==
  IF token = "" THEN "none"
  ELSE IF how = "build_fail" THEN "none"
  ELSE "built"

\* TelegramBot.stop: what the call does, the application stopped or nothing.
telegram_bot_stop(application) ==
  IF application # "none" THEN "released" ELSE "nothing"

\* The state before main() constructs the agent.
InitMain ==
  /\ current_mode = DEFAULT_MODE
  /\ TELEGRAM_CHAT_ID = ""
  /\ agent \in {[token |-> t, phase |-> "new", application |-> "none",
                 app_stops |-> 0] : t \in Tokens}
  /\ logged = <<>>
  /\ request = NoRequest
  /\ session = NoSession
  /\ event = NoEvent
  /\ replies = <<>>
  /\ touched = {}
  /\ modeBefore = DEFAULT_MODE
  /\ temp_files = {}
  /\ listener = "none"
  /\ is_active = FALSE
  /\ pressed_keys = {}
  /\ held = {}
  /\ threads = [t \in Threads |-> "idle"]
  /\ sinceFire = "never"

\* AIAgent.__init__: the configuration is validated first; a ValueError
\* leaves the constructor before any module is made.  The constructors of
\* the other modules are taken to succeed.
AgentConstruct ==
  /\ agent.phase = "new"
  /\ \E v \in {validate(agent.token)} :
       /\ event' = Event("construct", 0, <<>>, "", v)
       /\ IF v # "ok"
          THEN agent' = [agent EXCEPT !.phase = "failed"]
          ELSE \E how \in {"ok", "build_fail"} :
                 agent' = [agent EXCEPT !.phase = "constructed",
                                        !.application = setup_bot(agent.token, how)]
  /\ UNCHANGED <<TELEGRAM_CHAT_ID, logged, request, replies, modeBefore, temp_files>>
  /\ UNCHANGED hotkeyVars
  /\ UNCHANGED routerVars

\* AIAgent.start: the hotkey manager is started, then the bot, whose
\* run_polling keeps the calling thread until it ends; without an
\* application TelegramBot.start returns at once.
AgentStart ==
  /\ agent.phase = "constructed"
  /\ \E how \in StartOutcomes : listener' = hotkey_manager_start(listener, how)
  /\ agent' = [agent EXCEPT !.phase = IF agent.application = "none"
                                      THEN "running" ELSE "polling"]
  /\ UNCHANGED <<TELEGRAM_CHAT_ID, logged, request, event, replies, modeBefore, temp_files>>
  /\ UNCHANGED <<is_active, pressed_keys, held, threads, sinceFire>>
  /\ UNCHANGED routerVars

\* run_polling ends, by a signal or by an exception that start() logs.
PollingEnds ==
  /\ agent.phase = "polling"
  /\ agent' = [agent EXCEPT !.phase = "running"]
  /\ UNCHANGED <<TELEGRAM_CHAT_ID, logged, request, event, replies, modeBefore, temp_files>>
  /\ UNCHANGED hotkeyVars
  /\ UNCHANGED routerVars

\* AIAgent.stop, whenever the caller's thread is free to call it: both
\* front ends are stopped.  The event keeps what TelegramBot.stop did.
AgentStop ==
  /\ agent.phase \in {"constructed", "running", "stopped"}
  /\ agent.app_stops < MaxStops
  /\ \E r \in {telegram_bot_stop(agent.application)} :
       /\ agent' = [agent EXCEPT !.phase = "stopped",
                                 !.app_stops = IF r = "released" THEN @ + 1 ELSE @]
       /\ event' = Event("telegram_stop", 0, <<>>, "", r)
  /\ listener' = hotkey_manager_stop(listener).listener
  /\ UNCHANGED <<TELEGRAM_CHAT_ID, logged, request, replies, modeBefore, temp_files>>
  /\ UNCHANGED <<is_active, pressed_keys, held, threads, sinceFire>>
  /\ UNCHANGED routerVars

NextMain ==
  \/ AgentConstruct
  \/ AgentStart
  \/ PollingEnds
  \/ AgentStop
  \/ KeyPress
  \/ KeyRepeat
  \/ KeyRelease
  \/ SessionRecorded
  \/ SessionTranscribed

SpecMain == InitMain /\ [][NextMain]_vars

(***************************************************************************)
(* The status report and the spoken commands, called directly.             *)
(***************************************************************************)
\* AIAgent.get_system_status ("full") and AIAgentSimple.get_system_status
\* ("simple"): the lines of the report, their emoji left out.  whisper and
\* email are what is_whisper_available and is_authenticated answer.
get_system_status(variant, whisper, email, listening, application) ==
  <<"LLM: {current_mode.upper()}">>
  \o <<IF whisper THEN "Whisper: Available" ELSE "Whisper: Not available">>
  \o (IF variant = "full"
      THEN <<IF email THEN "Email: Connected" ELSE "Email: Not connected">>
      ELSE <<>>)
  \o <<IF listening THEN "Hotkey: Active" ELSE "Hotkey: Inactive">>
  \o <<IF application # "none" THEN "Telegram: Active" ELSE "Telegram: Inactive">>
  \o <<"Hotkey: {hotkey_combo}">>

\* A direct call of get_system_status, of either agent.
StatusCall ==
  /\ \E variant \in {"full", "simple"}, whisper \in BOOLEAN, email \in BOOLEAN :
       event' = Event("get_system_status", 0,
                      get_system_status(variant, whisper, email, is_listening,
                                        agent.application),
                      variant, "returned")
  /\ modeBefore' = current_mode
  /\ replies' = <<>>
  /\ touched' = {"status"}
  /\ session' = NoSession
  /\ UNCHANGED <<current_mode, TELEGRAM_CHAT_ID, agent, logged, request, temp_files>>
  /\ UNCHANGED hotkeyVars

\* What is said to the agent here: the examples of its help texts and
\* phrases that join two commands.
Phrases ==
  { <<"S","y","s","t","e","m"," ","s","t","a","t","u","s">>,
    <<"s","t","a","t","u","s"," ","m","o","d","e"," ","o","n","l","i","n","e">>,
    <<"S","w","i","t","c","h"," ","t","o"," ","o","n","l","i","n","e"," ","m","o","d","e">>,
    <<"S","w","i","t","c","h"," ","t","o"," ","o","f","f","l","i","n","e"," ","m","o","d","e">>,
    <<"H","e","l","p">>,
    <<"C","h","e","c","k"," ","e","m","a","i","l","s">>,
    <<"C","h","e","c","k"," ","r","e","c","e","n","t"," ","e","m","a","i","l","s">>,
    <<"S","h","o","w"," ","r","e","c","e","n","t"," ","e","m","a","i","l","s">>,
    <<"S","e","n","d"," ","e","m","a","i","l">>,
    <<"s","e","n","d"," ","a","n"," ","e","m","a","i","l"," ","t","o"," ","b","o","b">>,
    <<"c","o","m","p","o","s","e"," ","e","m","a","i","l">>,
    <<"r","e","a","d"," ","e","m","a","i","l"," ","a","n","d"," ","s","e","n","d"," ","e","m","a","i","l">> }

\* A direct call of process_text_message with one of the phrases.
PhraseCall ==
  /\ \E message \in Phrases, out \in Outcomes : Process(message, out)
  /\ modeBefore' = current_mode
  /\ event' = Event("utterance", 0, <<>>, "", "processed")
  /\ replies' = <<>>
  /\ UNCHANGED <<TELEGRAM_CHAT_ID, agent, logged, request, temp_files>>
  /\ UNCHANGED hotkeyVars

NextCommands ==
  \/ StatusCall
  \/ PhraseCall
  \/ HotkeyStart
  \/ HotkeyStop

SpecCommands == InitRouter /\ [][NextCommands]_vars

(***************************************************************************)
(* LLMManager.get_response test by test, with set_mode calls of other      *)
(* threads in between.  An activation thread and the chat loop share the   *)
(* one LLMManager; each read of self.current_mode is one step.             *)
(***************************************************************************)
\* The provider get_response calls for a mode.
ProviderOf(mode) ==
  IF mode = "online" THEN "openai"
  ELSE IF mode = "huggingface" THEN "huggingface"
  ELSE "ollama"

\* `if self.current_mode == "online"`: the first read of the mode.
first_test(mode) ==
  IF mode = "online" THEN [pc |-> "done", provider |-> "openai"]
  ELSE [pc |-> "second", provider |-> ""]

\* `elif self.current_mode == "huggingface"`: the second read of the mode.
second_test(mode) ==
  IF mode = "huggingface" THEN "huggingface" ELSE "ollama"

\* get_response is entered.
RequestBegin ==
  /\ request.pc \in {"idle", "done"}
  /\ request' = [pc |-> "first", seen |-> {current_mode}, provider |-> ""]
  /\ UNCHANGED <<current_mode, TELEGRAM_CHAT_ID, agent, logged, session, event,
                 replies, touched, modeBefore, temp_files>>
  /\ UNCHANGED hotkeyVars

RequestFirstTest ==
  /\ request.pc = "first"
  /\ \E r \in {first_test(current_mode)} :
       request' = [request EXCEPT !.pc = r.pc, !.provider = r.provider]
  /\ UNCHANGED <<current_mode, TELEGRAM_CHAT_ID, agent, logged, session, event,
                 replies, touched, modeBefore, temp_files>>
  /\ UNCHANGED hotkeyVars

RequestSecondTest ==
  /\ request.pc = "second"
  /\ request' = [request EXCEPT !.pc = "done",
                                !.provider = second_test(current_mode)]
  /\ UNCHANGED <<current_mode, TELEGRAM_CHAT_ID, agent, logged, session, event,
                 replies, touched, modeBefore, temp_files>>
  /\ UNCHANGED hotkeyVars

\* A set_mode call of another thread; a request in flight has then lived
\* through the mode the call leaves.
SetModeConcurrent ==
  \E candidate \in Candidates :
    \E r \in {set_mode(current_mode, candidate)} :
      /\ modeBefore' = current_mode
      /\ event' = Event("set_mode", 0, <<>>, candidate, r.outcome)
      /\ current_mode' = r.mode
      /\ request' = IF request.pc \in {"first", "second"}
                    THEN [request EXCEPT !.seen = @ \cup {r.mode}]
                    ELSE request
      /\ replies' = <<>>
      /\ touched' = {"mode"}
      /\ session' = NoSession
      /\ UNCHANGED <<TELEGRAM_CHAT_ID, agent, logged, temp_files>>
      /\ UNCHANGED hotkeyVars

NextRequest ==
  \/ RequestBegin
  \/ RequestFirstTest
  \/ RequestSecondTest
  \/ SetModeConcurrent

SpecRequest == InitRouter /\ [][NextRequest]_vars

(***************************************************************************)
(* Properties.                                                             *)
(***************************************************************************)
\* The sessions in flight: activations that are recording or transcribing.
InFlight == {t \in Threads : threads[t] # "idle"}

\* C1: while one hotkey-triggered voice session is in flight a second
\* activation starts no other, so no two sessions ever run at once.
AtMostOneSessionInFlight == Cardinality(InFlight) <= 1

\* The configured allow-list rejects the sender of the last event.
SenderNotAllowed ==
  /\ event.kind \in {"text", "voice", "/mode", "/status", "/start", "/help"}
  /\ TELEGRAM_CHAT_ID # ""
  /\ str(event.sender) # TELEGRAM_CHAT_ID

\* C2: a text or voice message from a sender the allow-list rejects gets
\* exactly the fixed unauthorized reply; process_text_message, the
\* transcriber, file search, email and the model are not invoked for it.
RejectedMessageOnlyRefused ==
  (SenderNotAllowed /\ event.kind \in {"text", "voice"}) =>
     /\ replies = <<Unauthorized>>
     /\ touched = {}
     /\ session = NoSession

RejectedMessageSeen ==
  /\ SenderNotAllowed
  /\ event.kind = "voice"
  /\ replies = <<Unauthorized>>

\* C3: no inbound chat event of any kind from a sender the allow-list
\* rejects is processed further: the mode after the event is the mode
\* before it and no collaborator or status query is touched.
RejectedEventNotProcessed ==
  SenderNotAllowed => (current_mode = modeBefore /\ touched = {})

\* C4: after the listener fires an activation it fires no other until a
\* chord key has been released in between, whatever keys are pressed,
\* repeated or released.
NoRepeatFire == [][(~is_active /\ is_active') => sinceFire # "held"]_vars

\* C5: in every reachable state, the state after construction included,
\* the current mode is one of the modes set_mode accepts.
ModeIsSupported == current_mode \in SupportedModes

\* C6: set_mode with a candidate outside the supported modes is rejected
\* with an error of its own and leaves the mode as it was.
SetRejectsUnsupported ==
  (event.kind = "set_mode" /\ event.candidate \notin SupportedModes) =>
     /\ event.outcome = "ValueError"
     /\ current_mode = modeBefore

SetRejectedSeen ==
  /\ event.kind = "set_mode"
  /\ event.candidate = "bogus"
  /\ event.outcome = "ValueError"
  /\ modeBefore = "online"
  /\ current_mode = "online"

\* C7: for every supported mode m and from any prior mode, set_mode(m)
\* succeeds and the mode read right after it is m.
SetThenGet ==
  (event.kind = "set_mode" /\ event.candidate \in SupportedModes) =>
     /\ event.outcome = "ok"
     /\ current_mode = event.candidate

SetThenGetSeen ==
  /\ event.kind = "set_mode"
  /\ event.candidate = "huggingface"
  /\ modeBefore = "offline"
  /\ current_mode = "huggingface"

\* C8: an utterance with an email keyword and a system keyword but no
\* file-search keyword resolves to the email branch, never to status.
EmailBeforeSystem ==
  (/\ session # NoSession
   /\ AnyKeyword(lower(session.message), EmailKeywords)
   /\ AnyKeyword(lower(session.message), SystemKeywords)
   /\ ~AnyKeyword(lower(session.message), FileSearchKeywords)) =>
     /\ session.intent = "email"
     /\ session.kind # "status"

EmailStatusSeen ==
  /\ session.message = <<"e","m","a","i","l"," ","s","t","a","t","u","s">>
  /\ session.intent = "email"

\* C9: 'find all pdf files' is a file search for 'pdf files', and when the
\* search returns nothing the reply is "No files found matching 'pdf files'".
FindAllPdfFiles ==
  (session.message = <<"f","i","n","d"," ","a","l","l"," ","p","d","f"," ",
                       "f","i","l","e","s">>) =>
     /\ session.intent = "file_search"
     /\ session.query = <<"p","d","f"," ","f","i","l","e","s">>
     /\ session.kind = "not_found" =>
          session.response = Reply("No files found matching '{query}'",
                                   <<"p","d","f"," ","f","i","l","e","s">>, "")

\* The text that follows the first "search for " of the normalised message,
\* <<>> when the message holds none.
AfterSearchFor(message) ==
  LET text == lower(message)
      pre == <<"s","e","a","r","c","h"," ","f","o","r"," ">>
      At == {i \in 1..Len(text) : StartsAt(text, i, pre)}
  IN IF At = {} THEN <<>>
     ELSE SubSeq(text, Min(At) + Len(pre), Len(text))

\* C10: for every utterance containing 'search for X' the router yields a
\* file search whose query is X with the surrounding blanks removed.
SearchForQueryTrimmed ==
  (session # NoSession /\ strip(AfterSearchFor(session.message)) # <<>>) =>
     /\ session.intent = "file_search"
     /\ session.query = strip(AfterSearchFor(session.message))

\* The message of the last call holds one of the router's keywords.
HasRuleKeyword ==
  AnyKeyword(lower(session.message),
             FileSearchKeywords \o EmailKeywords \o SystemKeywords)

\* C11: every utterance takes exactly one of the branches file search,
\* email, system command and chat; the branch is the same whatever the mode
\* and whatever the collaborators do; and it is chat exactly when the text
\* holds none of the rule keywords.
ClassificationTotal ==
  session # NoSession =>
     /\ session.intent \in {"file_search", "email", "system", "chat"}
     /\ (session.intent = "chat") <=> ~HasRuleKeyword
     /\ \A out \in Outcomes :
          process_text_message(session.message, "online", out).intent
            = session.intent

ChatBranchSeen ==
  /\ session.message = <<"p","d","f"," ","f","i","l","e","s">>
  /\ session.intent = "chat"
  /\ touched = {"llm"}

\* The text after a leading "search email " of the normalised message,
\* <<>> when the message does not begin so.
AfterSearchEmail(message) ==
  LET text == lower(message)
      pre == <<"s","e","a","r","c","h"," ","e","m","a","i","l"," ">>
  IN IF StartsAt(text, 1, pre)
     THEN SubSeq(text, Len(pre) + 1, Len(text))
     ELSE <<>>

\* C12: an utterance 'search email Q' resolves to the email branch, kind
\* search, with Q as the query, and the email collaborator is invoked.
SearchEmailIsEmailSearch ==
  (session # NoSession /\ strip(AfterSearchEmail(session.message)) # <<>>) =>
     /\ session.intent = "email"
     /\ session.kind = "search"
     /\ session.query = AfterSearchEmail(session.message)
     /\ "email" \in touched

\* C13: process_text_message never raises to its caller: whatever the
\* utterance and whatever collaborator fails, the call returns a reply.
NeverRaises ==
  session # NoSession =>
     /\ session.kind # "raised"
     /\ session.response.fmt # ""

RaiseBecameReply ==
  /\ session.message = <<"s","t","a","t","u","s">>
  /\ session.kind = "error"
  /\ session.response = Reply("Sorry, I encountered an error: {e}", <<>>, "")

\* The last operation asked the model and the provider call failed.
ProviderFailed == session.intent = "chat" /\ session.out = "raise"

\* C14: when the provider call of the model fails the reply is one fixed
\* canned message: it carries no error text and it is the same for every
\* failure.
ProviderFailureCanned ==
  [][ProviderFailed' =>
        /\ session'.response.arg = <<>>
        /\ ProviderFailed => session'.response = session.response]_vars

\* C15: while the transcription or the model completion of one chat event
\* is in progress the receive loop is not blocked: it can begin handling
\* another event.
ReceiveNotBlocked == CollaboratorWorking => ENABLED LoopBegin

\* The last event is a voice message whose transcription ran out of time.
VoiceTimedOut == event.kind = "voice" /\ event.outcome = "timeout"

\* C16: when the transcription of a voice message times out, the session
\* ends with the reply that says so, the marker is not taken for what the
\* user said, and the session leaves no temporary file behind.
TimeoutYieldsTimedOutReply ==
  [][VoiceTimedOut' =>
        /\ replies' # <<>>
        /\ replies'[Len(replies')].arg = transcribe_audio_file("timeout", <<>>)
        /\ "router" \notin touched'
        /\ temp_files' \subseteq temp_files]_vars

\* C17: a voice session leaves none of its temporary files behind (the
\* downloaded voice note, the converted WAV), whichever of its steps
\* fails.
VoiceSessionLeavesNoFile ==
  [][event'.kind = "voice" => temp_files' \subseteq temp_files]_vars

\* C18: once stop() has returned, and until the next start(), no session
\* of an earlier activation is recording and no session's temporary file
\* exists.
StoppedMeansNoSession ==
  listener = "none" =>
     /\ \A t \in Threads : threads[t] # "recording"
     /\ temp_files = {}

\* A key event is delivered to the listener.
KeyEvent == KeyPress \/ KeyRepeat \/ KeyRelease

\* The step is one of the listener's callbacks.
KeyHandled ==
  \/ held' # held
  \/ pressed_keys' # pressed_keys
  \/ is_active' # is_active

\* C19: the key-event thread does none of the activation's work: a press
\* that fires only starts a thread for it and returns, no callback records,
\* transcribes or processes, and key events are handled while sessions run.
ActivationOffKeyThread ==
  /\ [][KeyHandled =>
          /\ UNCHANGED <<session, touched, current_mode, temp_files>>
          /\ \A t \in Threads :
               threads'[t] # threads[t] =>
                 (threads[t] = "idle" /\ threads'[t] = "recording")
          /\ (~is_active /\ is_active' /\ FreeThread # 0) =>
               threads'[FreeThread] = "recording"]_vars
  /\ [](InFlight # {} => ENABLED KeyEvent)

KeyHandledWhileRecording ==
  /\ threads[1] = "recording"
  /\ sinceFire = "released"
  /\ ~is_active
  /\ listener = "alive"

StopIdempotent ==
  [][HotkeyStop =>
       /\ event'.outcome \in {"released", "nothing"}
       /\ listener = "none" => (event'.outcome = "nothing" /\ listener' = "none")
       /\ hotkey_manager_stop(listener').listener = listener'
       /\ hotkey_manager_stop(listener').outcome = "nothing"]_vars

StoppedTwiceSeen ==
  /\ event.kind = "stop"
  /\ event.outcome = "nothing"
  /\ listener = "none"
  /\ sinceFire # "never"

\* C22: TelegramBot.stop is safe and idempotent: no call of it raises,
\* whether or not the bot was started, and however often it is called the
\* application is stopped at most once.
TelegramStopAtMostOnce ==
  /\ event.kind = "telegram_stop" => event.outcome \in {"released", "nothing"}
  /\ agent.app_stops <= 1

\* C29: when the token is missing the constructor fails with the
\* configuration error and nothing comes after it: no listener is
\* registered, no application is built, no loop starts, no session runs.
MissingTokenNothingStarts ==
  agent.token = "" =>
     /\ agent.phase \in {"new", "failed"}
     /\ agent.phase = "failed" =>
          (event.kind = "construct" /\ event.outcome = "ValueError")
     /\ agent.application = "none"
     /\ listener = "none"
     /\ InFlight = {}
     /\ touched = {}
     /\ session = NoSession

ConstructionFailedSeen ==
  /\ agent.token = ""
  /\ agent.phase = "failed"
  /\ held = HOTKEY_COMBINATION

\* The collaborator a line of the status report is about.
ReportedBy(line) ==
  IF line = "LLM: {current_mode.upper()}" THEN "model"
  ELSE IF line \in {"Whisper: Available", "Whisper: Not available"}
  THEN "transcription"
  ELSE IF line \in {"Email: Connected", "Email: Not connected"} THEN "email"
  ELSE IF line \in {"Hotkey: Active", "Hotkey: Inactive"} THEN "key listener"
  ELSE IF line \in {"Telegram: Active", "Telegram: Inactive"}
  THEN "chat frontend"
  ELSE "other"

IsCollaborator(who) == who # "other"

\* C23: every status report has one line for each collaborator, in the
\* order model, transcription, email, key listener, chat frontend; a
\* collaborator that is not there is reported, not left out.
StatusReportComplete ==
  event.kind = "get_system_status" =>
     SelectSeq([i \in 1..Len(event.arg) |-> ReportedBy(event.arg[i])],
               IsCollaborator)
       = <<"model", "transcription", "email", "key listener", "chat frontend">>

\* The step is a call of process_text_message: it leaves an utterance as
\* the last event and a call or a starting mode that was not there.
UtteranceProcessed ==
  /\ event'.kind = "utterance"
  /\ \/ event.kind # "utterance"
     \/ session' # session
     \/ modeBefore' # modeBefore

\* The step is a status request: a call of get_system_status, or an
\* utterance that reaches the system rule and asks for the status.
StatusRequested ==
  \/ StatusCall
  \/ /\ UtteranceProcessed
     /\ session'.intent = "system"
     /\ Contains(lower(session'.message), <<"s","t","a","t","u","s">>)

\* C24: a status request is read-only: the mode, the key listener (hook,
\* held keys, armed flag, activations) and the chat front end are after it
\* what they were before it.
StatusReadOnly ==
  [][StatusRequested =>
       UNCHANGED <<current_mode, listener, pressed_keys, is_active, threads,
                   agent, TELEGRAM_CHAT_ID>>]_vars

StatusAfterSwitchSeen ==
  /\ session.message = <<"s","t","a","t","u","s"," ","m","o","d","e"," ",
                         "o","n","l","i","n","e">>
  /\ session.kind = "status"
  /\ modeBefore = "offline"
  /\ current_mode = "offline"
  /\ listener = "alive"

\* C25: a text with a file-search keyword from which no pattern captures a
\* query is answered with the clarification message, and the file-search
\* collaborator is not invoked.
NoQueryAsksBack ==
  (/\ session # NoSession
   /\ AnyKeyword(lower(session.message), FileSearchKeywords)
   /\ \A i \in 1..Len(search_patterns) :
        re_search(search_patterns[i], lower(session.message)) = <<>>) =>
     /\ session.intent = "file_search"
     /\ session.kind = "clarify"
     /\ session.response =
          Reply("Please specify what you want to search for. For example: 'search for documents'",
                <<>>, "")
     /\ "file_search" \notin touched

BareSearchSeen ==
  /\ session.message = <<"s","e","a","r","c","h">>
  /\ session.kind = "clarify"
  /\ touched = {}

\* The last call took the email branch.
EmailQuery == session # NoSession /\ session.intent = "email"

\* C26: every utterance of the email branch that contains 'send' or
\* 'compose' is of kind send and is answered with the not-yet-available
\* message; nothing is sent.
SendIsNotYetAvailable ==
  (/\ EmailQuery
   /\ AnyKeyword(lower(session.message),
                 << <<"s","e","n","d">>, <<"c","o","m","p","o","s","e">> >>)) =>
     /\ session.kind = "send"
     /\ session.response =
          Reply("Email composition not yet implemented. Please use the web interface for now.",
                <<>>, "")
     /\ touched = {}

\* C27: every utterance of the email branch that contains 'check', 'read'
\* or 'show' is of kind check and is answered from the listing of recent
\* emails (with the error message when the listing fails).
CheckReadsRecentEmails ==
  (/\ EmailQuery
   /\ AnyKeyword(lower(session.message),
                 << <<"c","h","e","c","k">>, <<"r","e","a","d">>,
                    <<"s","h","o","w">> >>)) =>
     /\ \/ session.kind = "check"
        \/ session.kind = "error" /\ session.out = "raise"
     /\ "email" \in touched

\* The message of the last call holds the word.
Says(word) == Contains(lower(session.message), word)

\* C28: an utterance that reaches the system rule and contains 'mode' with
\* 'online' sets the mode to online, and one that contains 'mode' with
\* 'offline' (and not 'online') sets it to offline, whatever else it
\* contains; the reply names the mode held afterwards.
ModePhraseSetsMode ==
  (/\ session # NoSession
   /\ session.intent = "system"
   /\ session.kind # "error"
   /\ Says(<<"m","o","d","e">>)) =>
     /\ Says(<<"o","n","l","i","n","e">>) =>
          /\ current_mode = "online"
          /\ session.response = Reply("Switched to online mode (OpenAI)", <<>>, "")
     /\ (Says(<<"o","f","f","l","i","n","e">>) /\ ~Says(<<"o","n","l","i","n","e">>)) =>
          /\ current_mode = "offline"
          /\ session.response = Reply("Switched to offline mode (Ollama)", <<>>, "")

\* The slash commands of the chat transport.
SlashCommands == {"/start", "/help", "/mode", "/status", "/send"}

\* C30: every slash command /start, /help, /mode, /status and /send is
\* answered with one reply by its own handler and process_text_message is
\* not invoked for it; /mode with a supported value acts on the mode,
\* /status on the status report and /send on the email collaborator.
SlashCommandsHandled ==
  event.kind \in SlashCommands =>
    /\ Len(replies) = 1
    /\ session = NoSession
    /\ (event.kind = "/mode" /\ event.outcome # "invalid") => "mode" \in touched
    /\ event.kind = "/status" => "status" \in touched
    /\ event.kind = "/send" => "email" \in touched

\* C31: when no allow-listed sender id is configured, no text or voice
\* message is answered with the unauthorized reply; a text message of any
\* sender is handed to process_text_message and a voice message of any
\* sender gets past the allow-list test.
OpenWhenUnconfigured ==
  (TELEGRAM_CHAT_ID = "" /\ event.kind \in {"text", "voice"}) =>
     /\ event.outcome # "unauthorized"
     /\ \A i \in 1..Len(replies) : replies[i] # Unauthorized
     /\ event.kind = "text" => "router" \in touched

OpenSenderProcessedSeen ==
  /\ TELEGRAM_CHAT_ID = ""
  /\ event.kind = "voice"
  /\ event.sender = 2
  /\ "router" \in touched
  /\ Len(replies) = 2

\* C32: the reply process_text_message computed for a hotkey session is
\* among the lines the activation wrote to the log; no reply of a hotkey
\* session is dropped.
HotkeyReplyDelivered ==
  (session # NoSession /\ logged # <<>>) =>
     \E i \in 1..Len(logged) : logged[i] = session.response

\* C33: the provider a get_response call takes is the provider of a mode
\* that current_mode held at some moment between the call's entry and its
\* choice, whatever set_mode calls ran in between.
ProviderOfModeHeld ==
  request.pc = "done" =>
    \E m \in request.seen : ProviderOf(m) = request.provider

\* The ways a transcription fails: the voice file cannot be decoded or
\* exported, whisper exits non-zero, writes no output, times out or raises.
TranscriptionFailures ==
  {"decode_fail", "export_fail", "nonzero", "no_output", "timeout", "exception"}

\* C34: a voice message whose transcription failed is not submitted to the
\* router: process_text_message is invoked only with text the transcriber
\* produced from the audio.
FailedTranscriptionNotRouted ==
  (event.kind = "voice" /\ event.outcome \in TranscriptionFailures) =>
     /\ "router" \notin touched
     /\ session = NoSession

\* C35: an activation is dispatched only in a step after which exactly the
\* keys of the chord are physically held down, whatever presses, releases,
\* stops and starts came before.
ChordHeldAtDispatch ==
  [][(~is_active /\ is_active') => held' = HOTKEY_COMBINATION]_vars

\* C36: whenever is_active is set every key of the chord is in
\* pressed_keys, and a release that takes a key out of pressed_keys leaves
\* is_active cleared in the same step.
ArmedOnlyWithChordTracked ==
  [][/\ is_active' => HOTKEY_COMBINATION \subseteq pressed_keys'
     /\ (pressed_keys' # pressed_keys /\ pressed_keys' \subseteq pressed_keys)
          => ~is_active']_vars

ArmedThenReleasedSeen ==
  /\ sinceFire = "released"
  /\ ~is_active
  /\ pressed_keys # {}
  /\ ~(HOTKEY_COMBINATION \subseteq pressed_keys)

\* C37: the /mode command with a value rejects the value as invalid exactly
\* when set_mode rejects it, and switches the mode exactly when set_mode
\* accepts it.
ModeCommandAgreesWithSet ==
  (event.kind = "/mode" /\ event.arg # <<>>) =>
     \E r \in {set_mode(modeBefore, ModeName(event.arg))} :
        /\ event.outcome = "invalid" <=> r.outcome = "ValueError"
        /\ current_mode = r.mode

\* The status report of event e holds the line.
HasLine(e, line) == \E i \in 1..Len(e.arg) : e.arg[i] = line

\* C38: a status report shows the key listener as active exactly while its
\* hook is alive, and shows the chat frontend as active only while the
\* agent is started: before start() and after stop() both are shown as
\* inactive.
StatusShowsLiveness ==
  [][(event'.kind = "get_system_status" /\ event' # event) =>
       /\ HasLine(event', "Hotkey: Active") <=> listener' = "alive"
       /\ HasLine(event', "Telegram: Active") =>
            agent'.phase \in {"polling", "running"}]_vars

\* The last event asked for the mode without naming one: /mode without an
\* argument, or a message answered by the system rule that holds 'mode'
\* and neither 'online' nor 'offline'.
ModeQueried ==
  \/ event.kind = "/mode" /\ event.arg = <<>> /\ event.outcome = "shown"
  \/ /\ event.kind \in {"text", "voice"}
     /\ session # NoSession
     /\ session.intent = "system"
     /\ session.kind # "error"
     /\ Says(<<"m","o","d","e">>)
     /\ ~Says(<<"o","n","l","i","n","e">>)
     /\ ~Says(<<"o","f","f","l","i","n","e">>)

\* C39: a mode query that names no target is answered with the current
\* mode and leaves the mode as it was.
ModeQueryKeepsMode ==
  ModeQueried =>
     /\ current_mode = modeBefore
     /\ replies # <<>>
     /\ replies[Len(replies)].val = current_mode

ModeQueryAnsweredSeen ==
  /\ ModeQueried
  /\ event.kind = "voice"
  /\ replies[Len(replies)] =
       Reply("Current mode: {current_mode}. Use 'switch to online/offline mode'",
             <<>>, "offline")

=============================================================================
